---- MODULE Spec2Model ----
(***************************************************************************)
(* Model of my-app/src/app/page.tsx: the phone-number manager page.        *)
(*                                                                         *)
(* A JavaScript string is a sequence of characters; a character is a       *)
(* one-character TLA+ string, except for the characters that have no       *)
(* printable form, which get a name (NBSP, NL, TAB).  The JavaScript value *)
(* undefined of an optional string field is the sequence Undefined, which  *)
(* is no string of the program (its one element is no character).         *)
(***************************************************************************)
EXTENDS Integers, Sequences, FiniteSets, TLC

VARIABLES
    rawText,         \* useState("")                      page.tsx:51
    defaultCountry,  \* useState<CountryCode>("NP")       page.tsx:52
    onlyValid,       \* useState(true)                    page.tsx:53
    sortAsc,         \* useState(true)                    page.tsx:54
    selected,        \* useState<Set<string>>(new Set())  page.tsx:55
    tokens,          \* const tokens = tokenize(rawText)  page.tsx:59
    parsed,          \* const parsed = tokens.map(...)    page.tsx:60
    rows,            \* the memoised flat sequence        page.tsx:58
    grouped,         \* the memoised grouped view         page.tsx:106
    token,           \* the argument of a cleanToken call page.tsx:32
    cleaned,         \* the value that call returns       page.tsx:37
    authority,       \* the library's answer per (cleaned, region) pair
    pc               \* "page", or the position of a function's call

vars == <<rawText, defaultCountry, onlyValid, sortAsc, selected, tokens,
          parsed, rows, grouped, token, cleaned, authority, pc>>

----------------------------------------------------------------------------
(* Characters and character classes of the regular expressions.            *)

SP == " "
NBSP == "NBSP"
NL == "NL"
TAB == "TAB"
Undefined == <<"undefined">>

DigitSeq == <<"0", "1", "2", "3", "4", "5", "6", "7", "8", "9">>
\* \d
Digit == {DigitSeq[i] : i \in DOMAIN DigitSeq}
\* \s, which in JavaScript contains U+00A0
White == {SP, NBSP, NL, TAB}
\* [\n,;\t]
Delim == {NL, ",", ";", TAB}
\* [\d\s\-()]
Inner == Digit \cup White \cup {"-", "(", ")"}
\* the {5,} of the embedded-number expression
MinInner == 5
\* the {2,} of the split expression
MinSpaces == 2

DigitValue(c) == CHOOSE i \in DOMAIN DigitSeq : DigitSeq[i] = c

\* All sequences over S of length at most n.
SeqsUpTo(S, n) == UNION {[1..k -> S] : k \in 0..n}

\* s.filter(keep) for a string s.
RECURSIVE Keep(_, _)
Keep(s, S) ==
    IF s = <<>> THEN <<>>
    ELSE IF Head(s) \in S THEN <<Head(s)>> \o Keep(Tail(s), S)
    ELSE Keep(Tail(s), S)

\* s.replace(/ /g, " ")
ReplaceNbsp(s) == [i \in DOMAIN s |-> IF s[i] = NBSP THEN SP ELSE s[i]]

\* s.trim(): whitespace, U+00A0 included, leaves both ends.
RECURSIVE TrimLeft(_)
TrimLeft(s) ==
    IF s # <<>> /\ Head(s) \in White THEN TrimLeft(Tail(s)) ELSE s

RECURSIVE TrimRight(_)
TrimRight(s) ==
    IF s # <<>> /\ s[Len(s)] \in White
    THEN TrimRight(SubSeq(s, 1, Len(s) - 1)) ELSE s

Trim(s) == TrimRight(TrimLeft(s))

\* The last index of the run of characters of S that starts at i.
RECURSIVE RunEnd(_, _, _)
RunEnd(s, i, S) ==
    IF i + 1 <= Len(s) /\ s[i + 1] \in S THEN RunEnd(s, i + 1, S) ELSE i

\* Array.from(new Set(list)): first occurrences, in order.
RECURSIVE Unique(_, _)
Unique(list, acc) ==
    IF list = <<>> THEN acc
    ELSE IF \E i \in DOMAIN acc : acc[i] = Head(list)
         THEN Unique(Tail(list), acc)
         ELSE Unique(Tail(list), Append(acc, Head(list)))

----------------------------------------------------------------------------
(* tokenize                                                                *)

\* s.split(/[\n,;\t]+|\s{2,}/g): at each position the first alternative is
\* tried before the second, each takes the longest run, and the pieces
\* between the matches are returned, empty ones included.
RECURSIVE SplitFrom(_, _, _, _)
SplitFrom(s, i, cur, acc) ==
    IF i > Len(s) THEN Append(acc, cur)
    ELSE IF s[i] \in Delim
         THEN SplitFrom(s, RunEnd(s, i, Delim) + 1, <<>>, Append(acc, cur))
    ELSE IF s[i] \in White /\ RunEnd(s, i, White) - i + 1 >= MinSpaces
         THEN SplitFrom(s, RunEnd(s, i, White) + 1, <<>>, Append(acc, cur))
    ELSE SplitFrom(s, i + 1, Append(cur, s[i]), acc)

Split(s) == SplitFrom(s, 1, <<>>, <<>>)

\* .map(s => s.trim()).filter(Boolean)
RECURSIVE TrimAndDrop(_)
TrimAndDrop(list) ==
    IF list = <<>> THEN <<>>
    ELSE IF Trim(Head(list)) = <<>> THEN TrimAndDrop(Tail(list))
    ELSE <<Trim(Head(list))>> \o TrimAndDrop(Tail(list))

\* One attempt of /[+]?\d[\d\s\-()]{5,}\d/ at position p: the index of the
\* last character of the match, or 0 when there is none.  q is the first
\* digit; the greedy run backs off to the last digit that leaves at least
\* MinInner characters between the two digits.
MatchEnd(s, p) ==
    LET q == IF s[p] = "+" THEN p + 1 ELSE p IN
    IF q > Len(s) \/ s[q] \notin Digit THEN 0
    ELSE LET r == RunEnd(s, q, Inner)
             ends == {e \in (q + MinInner + 1)..r : s[e] \in Digit}
         IN IF ends = {} THEN 0
            ELSE CHOOSE e \in ends : \A f \in ends : f <= e

\* Array.from(s.matchAll(re)).map(m => m[0].trim())
RECURSIVE MatchAllFrom(_, _)
MatchAllFrom(s, p) ==
    IF p > Len(s) THEN <<>>
    ELSE IF MatchEnd(s, p) = 0 THEN MatchAllFrom(s, p + 1)
    ELSE <<Trim(SubSeq(s, p, MatchEnd(s, p)))>>
             \o MatchAllFrom(s, MatchEnd(s, p) + 1)

candidates(input) == TrimAndDrop(Split(ReplaceNbsp(input)))

\* The scan reads input itself, not the string replace() returned.
embedded(input) == MatchAllFrom(input, 1)

tokenize(input) == Unique(candidates(input) \o embedded(input), <<>>)

----------------------------------------------------------------------------
(* cleanToken                                                              *)

RECURSIVE StripZeros(_)
StripZeros(s) ==
    IF s # <<>> /\ Head(s) = "0" THEN StripZeros(Tail(s)) ELSE s

\* cleanToken without the replace(/^0+/, "") of line 35.
cleanToken_KeepZeros(tok) ==
    LET t == Keep(tok, Digit \cup {"+"}) IN
    IF \E i \in DOMAIN t : t[i] = "+"
    THEN <<"+">> \o Keep(t, Digit)
    ELSE t

cleanToken(tok) ==
    LET t == Keep(tok, Digit \cup {"+"}) IN
    IF \E i \in DOMAIN t : t[i] = "+"
    THEN <<"+">> \o StripZeros(Keep(t, Digit))
    ELSE t

----------------------------------------------------------------------------
(* The numbering-plan authority (libphonenumber-js), as the page calls it. *)
(* What the library answers for a (cleaned, defaultCountry) pair is fixed  *)
(* but unknown to the page: the variable authority holds one answer per    *)
(* pair, chosen when the behaviour starts and never changed.               *)

NP == <<"N", "P">>
US == <<"U", "S">>
Regions == {NP, US}

CallingCode(region) == IF region = NP THEN <<"9", "7", "7">> ELSE <<"1">>

IsPrefix(p, s) == Len(p) <= Len(s) /\ SubSeq(s, 1, Len(p)) = p

HasDigit(s) == \E i \in DOMAIN s : s[i] \in Digit

\* The regions whose calling code starts the digits of an international
\* number.
RegionsOfDigits(ds) ==
    {r \in Regions : IsPrefix(CallingCode(r), ds)
                       /\ Len(ds) > Len(CallingCode(r))}

\* Whether the library can return a PhoneNumber at all: the string holds a
\* digit and, written with "+", starts with a calling code it knows.
Parseable(cl) ==
    /\ HasDigit(cl)
    /\ Head(cl) = "+" => RegionsOfDigits(Tail(cl)) # {}

\* The region whose calling code an international number carries.
RegionOfDigits(ds) == CHOOSE r \in RegionsOfDigits(ds) : TRUE

\* phone.countryCallingCode
PhoneCallingCode(cl, region) ==
    IF Head(cl) = "+" THEN CallingCode(RegionOfDigits(Tail(cl)))
    ELSE CallingCode(region)

\* phone.nationalNumber: the national (trunk) prefix 0 is not part of it.
PhoneNationalNumber(cl, region) ==
    IF Head(cl) = "+"
    THEN SubSeq(Tail(cl), Len(PhoneCallingCode(cl, region)) + 1, Len(cl) - 1)
    ELSE IF Head(cl) = "0" /\ Len(cl) > 1 THEN Tail(cl) ELSE cl

\* phone.number, the E.164 form
PhoneNumber(cl, region) ==
    <<"+">> \o PhoneCallingCode(cl, region) \o PhoneNationalNumber(cl, region)

\* phone.formatInternational()
FormatInternational(cl, region) ==
    <<"+">> \o PhoneCallingCode(cl, region) \o <<SP>>
            \o PhoneNationalNumber(cl, region)

\* phone.formatNational()
FormatNational(cl, region) == <<"0">> \o PhoneNationalNumber(cl, region)

\* The region the library resolves when it resolves one.
ResolvedCountry(cl, region) ==
    IF Head(cl) = "+" THEN RegionOfDigits(Tail(cl)) ELSE region

NoAnswer(kind) ==
    [kind |-> kind, forRegion |-> FALSE, isValid |-> FALSE, hasCountry |-> FALSE]

\* kind "throws": parsePhoneNumberFromString or isValidNumberForRegion
\*                raises, and the catch block is entered with nothing set;
\* kind "none":   parsePhoneNumberFromString returns undefined;
\* kind "phone":  a PhoneNumber, with the answers of
\*                isValidNumberForRegion(phone.number, defaultCountry) and
\*                phone.isValid(), and whether phone.country is defined
\*                (it is undefined for a number of no single region).
Answers ==
    {NoAnswer("throws"), NoAnswer("none")}
      \cup {[kind |-> "phone", forRegion |-> f, isValid |-> FALSE,
             hasCountry |-> FALSE] : f \in BOOLEAN}
      \cup {[kind |-> "phone", forRegion |-> f, isValid |-> TRUE,
             hasCountry |-> c] : f \in BOOLEAN, c \in BOOLEAN}

AnswersFor(cl) ==
    IF Parseable(cl) THEN Answers ELSE {NoAnswer("none")}

\* The authorities that answer the pairs of dom.
Authorities(dom) ==
    {f \in [dom -> Answers] : \A d \in dom : f[d] \in AnswersFor(d[1])}

----------------------------------------------------------------------------
(* The rows memo                                                           *)

\* JavaScript truthiness of an optional string: undefined and "" are falsy.
Truthy(s) == s # Undefined /\ s # <<>>

\* a || b on optional strings
OrElse(a, b) == IF Truthy(a) THEN a ELSE b

\* The callback with the canonical fields set for every PhoneNumber, the
\* if (phone.isValid()) of line 72 left out.
ParseRow_FillAlways(tok, auth, region) ==
    LET cl == cleanToken(tok)
        ans == auth[<<cl, region>>]
        phone == ans.kind = "phone"
    IN [raw |-> tok,
        cleaned |-> cl,
        valid |-> phone /\ (ans.forRegion \/ ans.isValid),
        e164 |-> IF phone THEN PhoneNumber(cl, region) ELSE Undefined,
        international |->
            IF phone THEN FormatInternational(cl, region) ELSE Undefined,
        national |-> IF phone THEN FormatNational(cl, region) ELSE Undefined,
        country |-> IF phone /\ ans.hasCountry
                    THEN ResolvedCountry(cl, region) ELSE Undefined]

\* The callback without the national = phone.formatNational() of line 75.
ParseRow_DropNational(tok, auth, region) ==
    LET cl == cleanToken(tok)
        ans == auth[<<cl, region>>]
        phone == ans.kind = "phone"
        fill == phone /\ ans.isValid
    IN [raw |-> tok,
        cleaned |-> cl,
        valid |-> phone /\ (ans.forRegion \/ ans.isValid),
        e164 |-> IF fill THEN PhoneNumber(cl, region) ELSE Undefined,
        international |->
            IF fill THEN FormatInternational(cl, region) ELSE Undefined,
        national |-> Undefined,
        country |-> IF fill /\ ans.hasCountry
                    THEN ResolvedCountry(cl, region) ELSE Undefined]

\* The callback of tokens.map: lines 60-82.
ParseRow(tok, auth, region) ==
    LET cl == cleanToken(tok)
        ans == auth[<<cl, region>>]
        phone == ans.kind = "phone"
        fill == phone /\ ans.isValid
    IN [raw |-> tok,
        cleaned |-> cl,
        valid |-> phone /\ (ans.forRegion \/ ans.isValid),
        e164 |-> IF fill THEN PhoneNumber(cl, region) ELSE Undefined,
        international |->
            IF fill THEN FormatInternational(cl, region) ELSE Undefined,
        national |-> IF fill THEN FormatNational(cl, region) ELSE Undefined,
        country |-> IF fill /\ ans.hasCountry
                    THEN ResolvedCountry(cl, region) ELSE Undefined]

ParseAll(toks, auth, region) ==
    [i \in DOMAIN toks |-> ParseRow(toks[i], auth, region)]

\* The filter without its r.e164 conjunct.
PassesFilter_ValidOnly(r) == r.valid

\* r => r.valid && r.e164
PassesFilter(r) == r.valid /\ Truthy(r.e164)

RECURSIVE FilterValid(_)
FilterValid(list) ==
    IF list = <<>> THEN <<>>
    ELSE IF PassesFilter(Head(list))
         THEN <<Head(list)>> \o FilterValid(Tail(list))
         ELSE FilterValid(Tail(list))

filtered(list, ov) == IF ov THEN FilterValid(list) ELSE list

\* const key = r.e164 || r.cleaned
DedupKey(r) == OrElse(r.e164, r.cleaned)

\* The loop of lines 87-95; seen is the set of the keys of acc.
RECURSIVE DedupFrom(_, _)
DedupFrom(list, acc) ==
    IF list = <<>> THEN acc
    ELSE IF \E i \in DOMAIN acc : DedupKey(acc[i]) = DedupKey(Head(list))
         THEN DedupFrom(Tail(list), acc)
         ELSE DedupFrom(Tail(list), Append(acc, Head(list)))

\* The loop keeping the last record of a key instead of the first.
RECURSIVE dedup_KeepLast(_)
dedup_KeepLast(list) ==
    IF list = <<>> THEN <<>>
    ELSE IF \E i \in 2..Len(list) : DedupKey(list[i]) = DedupKey(Head(list))
         THEN dedup_KeepLast(Tail(list))
         ELSE <<Head(list)>> \o dedup_KeepLast(Tail(list))

dedup(list) == DedupFrom(list, <<>>)

\* (r.e164 || r.cleaned).replace(/\D/g, "")
SortKey(r) == Keep(DedupKey(r), Digit)

\* A < B on strings of digits: by the first character that differs, and a
\* proper prefix is the smaller.
RECURSIVE LexLess(_, _)
LexLess(A, B) ==
    IF B = <<>> THEN FALSE
    ELSE IF A = <<>> THEN TRUE
    ELSE IF Head(A) # Head(B) THEN DigitValue(Head(A)) < DigitValue(Head(B))
    ELSE LexLess(Tail(A), Tail(B))

\* A < B as numbers: Number(A) < Number(B).
NumLess(A, B) ==
    LET a == StripZeros(A)
        b == StripZeros(B)
    IN Len(a) < Len(b) \/ (Len(a) = Len(b) /\ LexLess(a, b))

\* The comparator comparing the keys as numbers.
compare_Numeric(a, b, asc) ==
    (IF NumLess(SortKey(a), SortKey(b)) THEN -1 ELSE 1)
        * (IF asc THEN 1 ELSE -1)

\* The comparator handed to sort: lines 97-101.
compare(a, b, asc) ==
    (IF LexLess(SortKey(a), SortKey(b)) THEN -1 ELSE 1)
        * (IF asc THEN 1 ELSE -1)

\* Array.prototype.sort is a comparison sort, and which of the two calls
\* compare(x, y), compare(y, x) it makes for a pair is the engine's choice.
\* Where the two calls agree that choice makes no difference; where they
\* contradict each other the order is implementation-defined, and each
\* call's answer is an order an engine may produce.
PlacesBefore(x, y, asc) == {compare(x, y, asc) < 0, compare(y, x, asc) > 0}

\* The insertion of x into the sorted prefix, scanning from its end.
RECURSIVE InsertOutcomes(_, _, _, _)
InsertOutcomes(sorted, x, j, asc) ==
    IF j = 0 THEN {<<x>> \o sorted}
    ELSE UNION {IF before
                THEN InsertOutcomes(sorted, x, j - 1, asc)
                ELSE {SubSeq(sorted, 1, j) \o <<x>>
                        \o SubSeq(sorted, j + 1, Len(sorted))}
                : before \in PlacesBefore(x, sorted[j], asc)}

RECURSIVE SortFrom(_, _, _)
SortFrom(sorted, rest, asc) ==
    IF rest = <<>> THEN {sorted}
    ELSE UNION {SortFrom(s, Tail(rest), asc)
                : s \in InsertOutcomes(sorted, Head(rest), Len(sorted), asc)}

\* The arrays dedup.sort(comparator) can leave.
SortOutcomes(list, asc) == SortFrom(<<>>, list, asc)

\* const c = r.country || "Unknown"
Unknown == <<"U", "n", "k", "n", "o", "w", "n">>
GroupKey(r) == OrElse(r.country, Unknown)

\* The loop of lines 107-113: map[c] exists once a row of c was pushed.
RECURSIVE GroupFrom(_, _)
GroupFrom(list, map) ==
    IF list = <<>> THEN map
    ELSE LET r == Head(list)
             c == GroupKey(r)
         IN IF c \in DOMAIN map
            THEN GroupFrom(Tail(list), [map EXCEPT ![c] = Append(@, r)])
            ELSE GroupFrom(Tail(list), map @@ (c :> <<r>>))

\* The loop with map[c] = [r] in place of map[c].push(r).
RECURSIVE Group_Overwrite(_)
Group_Overwrite(list) ==
    IF list = <<>> THEN <<>>
    ELSE LET r == list[Len(list)]
             before == Group_Overwrite(SubSeq(list, 1, Len(list) - 1))
         IN [c \in DOMAIN before \cup {GroupKey(r)} |->
                IF c = GroupKey(r) THEN <<r>> ELSE before[c]]

Group(list) == GroupFrom(list, <<>>)

\* One evaluation of the two memos (lines 58-114) for the given inputs.
Render(text, region, ov, asc) ==
    LET toks == tokenize(text)
        prs == ParseAll(toks, authority, region)
    IN /\ tokens' = toks
       /\ parsed' = prs
       /\ rows' \in SortOutcomes(dedup(filtered(prs, ov)), asc)
       /\ grouped' = Group(rows')

\* The pairs the library is asked about while text is rendered.
Asked(text, region) ==
    {<<cleanToken(tokenize(text)[i]), region>> : i \in DOMAIN tokenize(text)}

----------------------------------------------------------------------------
(* The page: its state and its event handlers.  Nothing on the page calls  *)
(* setOnlyValid or setSortAsc, so both keep their initial value.           *)

MaxTextLen == 3
PageChars == {"1", NL}
PageTexts == SeqsUpTo(PageChars, MaxTextLen)

PageAsked == UNION {Asked(text, r) : text \in PageTexts, r \in Regions}

\* On the page every pair is either no number or a valid number of the
\* region it resolves to.
PageAnswers(cl, region) ==
    {NoAnswer("none"),
     [kind |-> "phone", forRegion |-> ResolvedCountry(cl, region) = region,
      isValid |-> TRUE, hasCountry |-> TRUE]}

PageAuthorities ==
    {f \in [PageAsked -> Answers] :
        \A d \in PageAsked : f[d] \in PageAnswers(d[1], d[2])}

Init ==
    /\ rawText = <<>>
    /\ defaultCountry = NP
    /\ onlyValid = TRUE
    /\ sortAsc = TRUE
    /\ selected = {}
    /\ authority \in PageAuthorities
    /\ tokens = <<>>
    /\ parsed = <<>>
    /\ rows = <<>>
    /\ grouped = <<>>
    /\ token = <<>>
    /\ cleaned = <<>>
    /\ pc = "page"

\* onChange of the textarea: line 159.
SetRawText(text) ==
    /\ pc = "page"
    /\ rawText' = text
    /\ Render(text, defaultCountry, onlyValid, sortAsc)
    /\ UNCHANGED <<defaultCountry, onlyValid, sortAsc, selected, token,
                   cleaned, authority, pc>>

\* onClick of Clear: line 176.
Clear ==
    /\ pc = "page"
    /\ rawText' = <<>>
    /\ Render(<<>>, defaultCountry, onlyValid, sortAsc)
    /\ UNCHANGED <<defaultCountry, onlyValid, sortAsc, selected, token,
                   cleaned, authority, pc>>

\* The complete callback of Papa.parse: lines 132-135.
handleUploadFile(text) ==
    LET next == (IF rawText # <<>> THEN rawText \o <<NL>> ELSE <<>>) \o text
    IN /\ pc = "page"
       /\ Len(next) <= MaxTextLen
       /\ rawText' = next
       /\ Render(next, defaultCountry, onlyValid, sortAsc)
       /\ UNCHANGED <<defaultCountry, onlyValid, sortAsc, selected, token,
                      cleaned, authority, pc>>

\* onChange of the default-country input: line 150.
SetDefaultCountry(region) ==
    /\ pc = "page"
    /\ defaultCountry' = region
    /\ Render(rawText, region, onlyValid, sortAsc)
    /\ UNCHANGED <<rawText, onlyValid, sortAsc, selected, token, cleaned,
                   authority, pc>>

\* toggleSelect, as the checkbox of a row calls it: lines 116-123, 233.
toggleSelect(num) ==
    /\ pc = "page"
    /\ selected' = IF num \in selected THEN selected \ {num}
                   ELSE selected \cup {num}
    /\ UNCHANGED <<rawText, defaultCountry, onlyValid, sortAsc, tokens,
                   parsed, rows, grouped, token, cleaned, authority, pc>>

Next ==
    \/ \E text \in PageTexts : SetRawText(text)
    \/ Clear
    \/ \E text \in PageTexts : handleUploadFile(text)
    \/ \E region \in Regions : SetDefaultCountry(region)
    \/ \E i \in DOMAIN rows : toggleSelect(OrElse(rows[i].e164, <<>>))

Spec == Init /\ [][Next]_vars

----------------------------------------------------------------------------
(* The rows and grouped memos as a function of their four inputs.          *)

MaxRowTextLen == 4
RowChars == {"+", "0", "1", ",", "-"}

InitRows ==
    /\ rawText \in SeqsUpTo(RowChars, MaxRowTextLen)
    /\ defaultCountry \in Regions
    /\ onlyValid \in BOOLEAN
    /\ sortAsc \in BOOLEAN
    /\ authority \in Authorities(Asked(rawText, defaultCountry))
    /\ selected = {}
    /\ tokens = <<>>
    /\ parsed = <<>>
    /\ rows = <<>>
    /\ grouped = <<>>
    /\ token = <<>>
    /\ cleaned = <<>>
    /\ pc = "start"

ComputeRows ==
    /\ pc = "start"
    /\ pc' = "done"
    /\ Render(rawText, defaultCountry, onlyValid, sortAsc)
    /\ UNCHANGED <<rawText, defaultCountry, onlyValid, sortAsc, selected,
                   token, cleaned, authority>>

NextRows == ComputeRows

SpecRows == InitRows /\ [][NextRows]_vars

----------------------------------------------------------------------------
(* tokenize as a function of its input.                                    *)

MaxInputLen == 7
InputChars == {"1", NBSP, ","}

InitTokenize ==
    /\ rawText \in SeqsUpTo(InputChars, MaxInputLen)
    /\ defaultCountry = NP
    /\ onlyValid = TRUE
    /\ sortAsc = TRUE
    /\ authority = <<>>
    /\ selected = {}
    /\ tokens = <<>>
    /\ parsed = <<>>
    /\ rows = <<>>
    /\ grouped = <<>>
    /\ token = <<>>
    /\ cleaned = <<>>
    /\ pc = "start"

CallTokenize ==
    /\ pc = "start"
    /\ pc' = "done"
    /\ tokens' = tokenize(rawText)
    /\ UNCHANGED <<rawText, defaultCountry, onlyValid, sortAsc, selected,
                   parsed, rows, grouped, token, cleaned, authority>>

NextTokenize == CallTokenize

SpecTokenize == InitTokenize /\ [][NextTokenize]_vars

----------------------------------------------------------------------------
(* cleanToken as a function of its input.                                  *)

MaxTokenLen == 4
TokenChars == {"+", "0", "1", "-"}

InitClean ==
    /\ token \in SeqsUpTo(TokenChars, MaxTokenLen)
    /\ rawText = <<>>
    /\ defaultCountry = NP
    /\ onlyValid = TRUE
    /\ sortAsc = TRUE
    /\ authority = <<>>
    /\ selected = {}
    /\ tokens = <<>>
    /\ parsed = <<>>
    /\ rows = <<>>
    /\ grouped = <<>>
    /\ cleaned = <<>>
    /\ pc = "start"

CallCleanToken ==
    /\ pc = "start"
    /\ pc' = "done"
    /\ cleaned' = cleanToken(token)
    /\ UNCHANGED <<rawText, defaultCountry, onlyValid, sortAsc, selected,
                   tokens, parsed, rows, grouped, token, authority>>

NextClean == CallCleanToken

SpecClean == InitClean /\ [][NextClean]_vars

----------------------------------------------------------------------------
(* Properties                                                              *)

Optional == {"e164", "international", "national", "country"}

\* The deduplication key as the data model states it.
KeyOf(r) == IF r.e164 # Undefined /\ r.e164 # <<>> THEN r.e164 ELSE r.cleaned

\* The digits of the deduplication key.
DigitsOf(r) == Keep(KeyOf(r), Digit)

\* The group a record belongs to.
GroupOf(r) ==
    IF r.country # Undefined /\ r.country # <<>> THEN r.country ELSE Unknown

\* The records the onlyValid filter lets through.
Kept(r) == onlyValid => (r.valid /\ r.e164 # Undefined /\ r.e164 # <<>>)

\* The records of list whose group is c, in the order of list.
RECURSIVE RowsOfGroup(_, _)
RowsOfGroup(list, c) ==
    IF list = <<>> THEN <<>>
    ELSE IF GroupOf(Head(list)) = c
         THEN <<Head(list)>> \o RowsOfGroup(Tail(list), c)
         ELSE RowsOfGroup(Tail(list), c)

\* C1: no two records of rows share a deduplication key (e164 if present,
\* otherwise cleaned), and the record rows keeps for a key is the first
\* record of that key, in token order, among those the filter lets through.
C1_DedupInvariant ==
    pc = "done" =>
        /\ \A i, j \in DOMAIN rows :
              KeyOf(rows[i]) = KeyOf(rows[j]) => i = j
        /\ \A i \in DOMAIN rows :
              \E k \in DOMAIN parsed :
                  /\ parsed[k] = rows[i]
                  /\ \A m \in 1..(k - 1) :
                        Kept(parsed[m]) => KeyOf(parsed[m]) # KeyOf(rows[i])

\* Two tokens with different cleaned forms and one key both pass the
\* filter, and rows holds one record for them.
C1_Witness ==
    /\ pc = "done"
    /\ \E k, m \in DOMAIN parsed :
          /\ k < m
          /\ Kept(parsed[k]) /\ Kept(parsed[m])
          /\ parsed[k].cleaned # parsed[m].cleaned
          /\ KeyOf(parsed[k]) = KeyOf(parsed[m])
          /\ \E i \in DOMAIN rows : rows[i] = parsed[k]

\* C2: with onlyValid set, every record of rows is valid and has a
\* non-empty e164.
C2_FilterInvariant ==
    (pc = "done" /\ onlyValid) =>
        \A i \in DOMAIN rows :
            /\ rows[i].valid
            /\ rows[i].e164 # Undefined
            /\ rows[i].e164 # <<>>

\* onlyValid is set, a record is valid without an e164 and is dropped, and
\* another record is kept.
C2_Witness ==
    /\ pc = "done"
    /\ onlyValid
    /\ rows # <<>>
    /\ \E k \in DOMAIN parsed : parsed[k].valid /\ parsed[k].e164 = Undefined

\* C3: every record with valid = true has e164, international, national
\* and country, whichever of the two checks made it valid.
C3_ValidIsPopulated ==
    pc = "done" =>
        \A k \in DOMAIN parsed :
            parsed[k].valid => \A f \in Optional : parsed[k][f] # Undefined

\* The library's answer for the record's cleaned token.
AnswerOf(r) == authority[<<r.cleaned, defaultCountry>>]

\* C3, amended: a record with valid = true that passes the general check
\* phone.isValid() has e164, international and national, and has country
\* exactly when the library resolves one; a record that only the
\* region-specific check makes valid has none of the four.
C3_ValidPopulatedByGeneralCheck ==
    pc = "done" =>
        \A k \in DOMAIN parsed :
            parsed[k].valid =>
                IF AnswerOf(parsed[k]).isValid
                THEN /\ parsed[k].e164 = PhoneNumber(parsed[k].cleaned,
                                                     defaultCountry)
                     /\ parsed[k].international # Undefined
                     /\ parsed[k].national # Undefined
                     /\ (parsed[k].country # Undefined)
                            = AnswerOf(parsed[k]).hasCountry
                ELSE \A f \in Optional : parsed[k][f] = Undefined

\* One record is valid by the region-specific check alone, another by the
\* general check with no country resolved.
C3_Witness ==
    /\ pc = "done"
    /\ \E k, m \in DOMAIN parsed :
          /\ parsed[k].valid /\ ~AnswerOf(parsed[k]).isValid
          /\ parsed[m].valid /\ AnswerOf(parsed[m]).isValid
          /\ ~AnswerOf(parsed[m]).hasCountry

\* C4: adjacent records of rows are in the configured direction of the
\* lexicographic order of the digits of their keys.
C4_SortCorrect ==
    pc = "done" =>
        \A i \in 1..(Len(rows) - 1) :
            IF sortAsc
            THEN ~LexLess(DigitsOf(rows[i + 1]), DigitsOf(rows[i]))
            ELSE ~LexLess(DigitsOf(rows[i]), DigitsOf(rows[i + 1]))

\* rows holds two adjacent records that the lexicographic order separates
\* and the numeric order does not.
C4_Witness ==
    /\ pc = "done"
    /\ \E i \in 1..(Len(rows) - 1) :
          /\ LexLess(DigitsOf(rows[i]), DigitsOf(rows[i + 1]))
          /\ ~NumLess(DigitsOf(rows[i]), DigitsOf(rows[i + 1]))

\* C5: the groups partition rows: each group holds exactly the records of
\* rows of its country (Unknown for none) in the order of rows, no group is
\* empty, and every record of rows has its group.
C5_GroupingComplete ==
    pc = "done" =>
        /\ \A c \in DOMAIN grouped :
              grouped[c] # <<>> /\ grouped[c] = RowsOfGroup(rows, c)
        /\ \A i \in DOMAIN rows : GroupOf(rows[i]) \in DOMAIN grouped

\* rows is split over the Unknown group and a country's group.
C5_Witness ==
    /\ pc = "done"
    /\ Unknown \in DOMAIN grouped
    /\ \E c \in Regions : c \in DOMAIN grouped

\* C6: a record with valid = false has none of the four canonical fields,
\* and every token has its record, whatever the library did for the
\* tokens before it.
C6_InvalidIsBare ==
    pc = "done" =>
        /\ Len(parsed) = Len(tokens)
        /\ \A k \in DOMAIN parsed :
              /\ parsed[k].raw = tokens[k]
              /\ parsed[k].cleaned = cleanToken(tokens[k])
              /\ ~parsed[k].valid =>
                    \A f \in Optional : parsed[k][f] = Undefined

\* The library throws for one token, and a later token has a valid record
\* with its e164.
C6_Witness ==
    /\ pc = "done"
    /\ \E k, m \in DOMAIN parsed :
          /\ k < m
          /\ AnswerOf(parsed[k]).kind = "throws"
          /\ ~parsed[k].valid
          /\ parsed[m].valid
          /\ parsed[m].e164 # Undefined

\* C7: the value of cleanToken holds digits and at most one "+", which is
\* then its first character and is not followed by "0"; without a "+" in
\* the token it is the token's digits in order.
C7_CleanedShape ==
    pc = "done" =>
        /\ \A i \in DOMAIN cleaned :
              cleaned[i] \in Digit \/ (cleaned[i] = "+" /\ i = 1)
        /\ (Len(cleaned) >= 2 /\ cleaned[1] = "+") => cleaned[2] # "0"
        /\ (\A i \in DOMAIN token : token[i] # "+") =>
              cleaned = Keep(token, Digit)

\* A token whose "+" is not in front and whose digits start with 0.
C7_Witness ==
    /\ pc = "done"
    /\ Len(token) >= 3
    /\ token[1] = "0"
    /\ \E i \in 2..Len(token) : token[i] = "+"
    /\ Len(cleaned) >= 2

\* C8: tokenize(text) is tokenize of text with every U+00A0 replaced by a
\* space, and no token holds U+00A0.
C8_NbspNormalized ==
    pc = "done" =>
        /\ tokens = tokenize(ReplaceNbsp(rawText))
        /\ \A i \in DOMAIN tokens :
              \A j \in DOMAIN tokens[i] : tokens[i][j] # NBSP

\* C9: the comparator is consistent on the records it sorts: it is never
\* positive both ways nor negative both ways, and it is zero for two
\* records with the same digits.
C9_ComparatorConsistent ==
    pc = "done" =>
        \A i, j \in DOMAIN rows :
            i # j =>
                LET x == compare(rows[i], rows[j], sortAsc)
                    y == compare(rows[j], rows[i], sortAsc)
                IN /\ ~(x > 0 /\ y > 0)
                   /\ ~(x < 0 /\ y < 0)
                   /\ SortKey(rows[i]) = SortKey(rows[j]) => (x = 0 /\ y = 0)

\* C10: every string of the selection is the non-empty e164 of a record
\* of rows.
C10_SelectionIsCurrent ==
    \A s \in selected :
        s # <<>> /\ \E i \in DOMAIN rows : rows[i].e164 = s

====
